---- MODULE Spec2Model ----
(***************************************************************************)
(* A model of the DRMS documentation pipeline (pate0304/DRMS):             *)
(*   src/src/drms/scraper/doc_scraper.py   DocumentationScraper            *)
(*   src/src/drms/core/vector_store.py     VectorStore                     *)
(*   src/mcp_server.py, src/drms_api.py    the two search/discover adapters*)
(*                                                                         *)
(* The module holds several specifications over one set of variables:      *)
(*   SpecChunk    _chunk_content applied to bounded texts                  *)
(*   SpecCrawl    the _scrape_site loop, one iteration per step            *)
(*   SpecResolve  _discover_documentation_url on bounded probe outcomes    *)
(*   SpecIndex    the discovery handler: scrape_library, one call per step *)
(*   SpecSearch   the search handlers, one await per step                  *)
(*   SpecStore    the vector store's API                                   *)
(* A specification leaves the variables of the other parts untouched.      *)
(***************************************************************************)
EXTENDS Integers, Sequences, FiniteSets, TLC

VARIABLES
    \* ---- _chunk_content (SpecChunk)
    content,        \* the text handed to _chunk_content
    chunks,         \* the list it returned
    chunk_parts,    \* history: how many sentences went into each chunk
    chunk_pc,       \* "idle" | "input" | "done"
    \* ---- _scrape_site (SpecCrawl)
    base_url,       \* the crawl's base_url
    visited_urls,   \* visited_urls: Set[str]
    pages_data,     \* pages_data: the page records collected so far
    urls_to_visit,  \* urls_to_visit: the FIFO frontier
    crawl_pc,       \* "idle" | "loop" | "returned"
    scrape_calls,   \* history: _scrape_page invocations per URL
    first_seen,     \* history: URLs in the order they were first enqueued
    revisits,       \* history: _scrape_page invocations on a visited URL
    crawl_last,     \* history: what the last loop iteration did
    \* ---- _discover_documentation_url (SpecResolve)
    res_name,       \* library_name
    res_probe,      \* what the probed sites answer, per candidate
    res_session,    \* self.session when the call starts
    res_out,        \* the result: the URL returned and the URLs probed
    res_pc,         \* "idle" | "input" | "done"
    \* ---- the server (Spec)
    cache,          \* cache_dir: cache file name -> bundle (or Corrupt)
    collections,    \* VectorStore.collections: name -> (id -> document)
    session,        \* DocumentationScraper.session: "none" | "open" | "closed"
    clock,          \* the event loop's time()
    op              \* the request being handled, or the last one handled

chunkVars == <<content, chunks, chunk_parts, chunk_pc>>

crawlVars == <<base_url, visited_urls, pages_data, urls_to_visit, crawl_pc,
               scrape_calls, first_seen, revisits, crawl_last>>

resolveVars == <<res_name, res_probe, res_session, res_out, res_pc>>

serverVars == <<cache, collections, session, clock, op>>

vars == <<chunkVars, crawlVars, resolveVars, serverVars>>

\* Python None, and the absent value of an Optional
None == [none |-> TRUE]

\* Python None where the other values are strings (a string is compared
\* with strings only); no name and no URL of the model is this string
NoneStr == "None"

BoundedSeqs(S, n) == UNION {[1..k -> S] : k \in 0..n}

(***************************************************************************)
(* Text.  A string is a sequence of runs [ch, n]: n copies of character    *)
(* ch.  "a" stands for a word character, " " for whitespace, "." for a     *)
(* sentence terminal of the class [.!?].  Run lengths let the texts reach  *)
(* the real max_chunk_size of 500 characters.                              *)
(***************************************************************************)
Run(ch, n) == [ch |-> ch, n |-> n]

SP == Run(" ", 1)

RECURSIVE TextLen(_)
TextLen(s) == IF s = <<>> THEN 0 ELSE Head(s).n + TextLen(Tail(s))

IsTerminal(r) == r.ch = "."

IsSpace(r) == r.ch = " "

\* str.strip(): leading and trailing whitespace removed
RECURSIVE LStrip(_)
LStrip(s) == IF s # <<>> /\ IsSpace(Head(s)) THEN LStrip(Tail(s)) ELSE s

RECURSIVE RStrip(_)
RStrip(s) ==
    IF s # <<>> /\ IsSpace(s[Len(s)]) THEN RStrip(SubSeq(s, 1, Len(s) - 1)) ELSE s

Strip(s) == RStrip(LStrip(s))

\* re.split(r'[.!?]+', content): the pieces between maximal runs of
\* terminals, with an empty piece where the text starts or ends with one
RECURSIVE SplitFrom(_, _, _, _)
SplitFrom(s, i, cur, inDelim) ==
    IF i > Len(s) THEN <<cur>>
    ELSE IF IsTerminal(s[i])
         THEN IF inDelim THEN SplitFrom(s, i + 1, cur, TRUE)
              ELSE <<cur>> \o SplitFrom(s, i + 1, <<>>, TRUE)
         ELSE SplitFrom(s, i + 1, Append(cur, s[i]), FALSE)

SplitSentences(s) == SplitFrom(s, 1, <<>>, FALSE)

(***************************************************************************)
(* _chunk_content                                                          *)
(***************************************************************************)
max_chunk_size == 500

\* f"{library_name}_{len(chunks)}"
ChunkId(library_name, ordinal) == library_name \o "_" \o ToString(ordinal)

MakeChunk(text, url, library_name, ordinal) ==
    [content  |-> Strip(text),
     url      |-> url,
     library  |-> library_name,
     chunk_id |-> ChunkId(library_name, ordinal)]

\* the test that flushes the buffer before `sentence` is taken
ChunkOverflows(current_chunk, sentence) ==
    TextLen(current_chunk) + TextLen(sentence) > max_chunk_size

\* one pass of the for loop; st = [chunks, current_chunk, parts, n]
\* (parts and n are history: sentences per flushed chunk, sentences buffered)
ChunkLoopBody(st, raw, url, library_name) ==
    LET sentence == Strip(raw) IN
    IF sentence = <<>> THEN st
    ELSE IF ChunkOverflows(st.current_chunk, sentence)
    THEN IF st.current_chunk # <<>>
         THEN [chunks |-> Append(st.chunks,
                   MakeChunk(st.current_chunk, url, library_name, Len(st.chunks))),
               current_chunk |-> sentence,
               parts |-> Append(st.parts, st.n),
               n |-> 1]
         ELSE [st EXCEPT !.current_chunk = sentence, !.n = 1]
    ELSE [st EXCEPT
            !.current_chunk = IF st.current_chunk # <<>>
                              THEN st.current_chunk \o <<SP>> \o sentence
                              ELSE sentence,
            !.n = st.n + 1]

RECURSIVE ChunkLoop(_, _, _, _, _)
ChunkLoop(st, sentences, i, url, library_name) ==
    IF i > Len(sentences) THEN st
    ELSE ChunkLoop(ChunkLoopBody(st, sentences[i], url, library_name),
                   sentences, i + 1, url, library_name)

\* the loop, then "Add the last chunk"
ChunkRun(text, url, library_name) ==
    LET st == ChunkLoop([chunks |-> <<>>, current_chunk |-> <<>>,
                         parts |-> <<>>, n |-> 0],
                        SplitSentences(text), 1, url, library_name)
    IN IF st.current_chunk # <<>>
       THEN [chunks |-> Append(st.chunks,
                 MakeChunk(st.current_chunk, url, library_name, Len(st.chunks))),
             parts |-> Append(st.parts, st.n)]
       ELSE [chunks |-> st.chunks, parts |-> st.parts]

chunk_content(text, url, library_name) == ChunkRun(text, url, library_name).chunks

(***************************************************************************)
(* Strings.  Names and URLs are strings; TLC evaluates Len, \o, SubSeq,    *)
(* Head and Tail on them.                                                  *)
(***************************************************************************)
CharAt(s, i) == SubSeq(s, i, i)

StartsWith(s, p) == Len(s) >= Len(p) /\ SubSeq(s, 1, Len(p)) = p

\* `sub in s`
Contains(s, sub) ==
    \E i \in 1..(Len(s) - Len(sub) + 1) : SubSeq(s, i, i + Len(sub) - 1) = sub

UpperCase == "ABCDEFGHIJKLMNOPQRSTUVWXYZ"

LowerCase == "abcdefghijklmnopqrstuvwxyz"

LowerChar(c) ==
    IF \E i \in 1..Len(UpperCase) : CharAt(UpperCase, i) = c
    THEN CharAt(LowerCase, CHOOSE i \in 1..Len(UpperCase) : CharAt(UpperCase, i) = c)
    ELSE c

\* str.lower()
RECURSIVE Lower(_)
Lower(s) == IF s = "" THEN "" ELSE LowerChar(Head(s)) \o Lower(Tail(s))

\* the first index >= i of s at which one of the characters of set cs
\* stands, or Len(s) + 1
RECURSIVE FindFrom(_, _, _)
FindFrom(s, cs, i) ==
    IF i > Len(s) \/ CharAt(s, i) \in cs THEN i ELSE FindFrom(s, cs, i + 1)

(***************************************************************************)
(* URLs.  urlparse(url).netloc is what stands between "://" and the next   *)
(* "/", "?" or "#".                                                        *)
(***************************************************************************)
SchemeEnd(url) ==
    IF \E i \in 1..(Len(url) - 2) : SubSeq(url, i, i + 2) = "://"
    THEN 2 + CHOOSE i \in 1..(Len(url) - 2) :
             /\ SubSeq(url, i, i + 2) = "://"
             /\ \A k \in 1..(i - 1) : SubSeq(url, k, k + 2) # "://"
    ELSE 0

Netloc(url) ==
    IF SchemeEnd(url) = 0 THEN ""
    ELSE SubSeq(url, SchemeEnd(url) + 1,
                FindFrom(url, {"/", "?", "#"}, SchemeEnd(url) + 1) - 1)

\* scheme://netloc
Origin(url) ==
    IF SchemeEnd(url) = 0 THEN ""
    ELSE SubSeq(url, 1, FindFrom(url, {"/", "?", "#"}, SchemeEnd(url) + 1) - 1)

doc_indicators ==
    {"doc", "guide", "tutorial", "api", "reference",
     "manual", "help", "wiki", "learn", "getting-started"}

\* any(indicator in url.lower() for indicator in doc_indicators): the test
\* runs over the whole URL string, scheme and netloc included
is_documentation_url(url) ==
    \E indicator \in doc_indicators : Contains(Lower(url), indicator)

\* an href made absolute: urljoin(base_url, href) for an href that starts
\* with "/", the href itself when it starts with "http" (hrefs relative to
\* current_url are not among the hrefs of the model)
FullUrl(href, base) ==
    IF StartsWith(href, "/") THEN Origin(base) \o href ELSE href

(***************************************************************************)
(* _find_related_urls: the hrefs of the page made absolute, those of       *)
(* base_url's netloc that look like documentation, the first max_related   *)
(* (10 in the source).                                                     *)
(***************************************************************************)
max_related == 2

RECURSIVE FilterLinks(_, _)
FilterLinks(hrefs, base) ==
    IF hrefs = <<>> THEN <<>>
    ELSE LET full_url == FullUrl(Head(hrefs), base) IN
         IF Netloc(full_url) = Netloc(base) /\ is_documentation_url(full_url)
         THEN <<full_url>> \o FilterLinks(Tail(hrefs), base)
         ELSE FilterLinks(Tail(hrefs), base)

Take(s, n) == SubSeq(s, 1, IF Len(s) < n THEN Len(s) ELSE n)

find_related_urls(hrefs, base) == Take(FilterLinks(hrefs, base), max_related)

(***************************************************************************)
(* _scrape_site.  st = [visited_urls, pages_data, urls_to_visit].          *)
(* max_pages is 50 in the source; the model runs the loop with a smaller   *)
(* bound.                                                                  *)
(***************************************************************************)
max_pages == 3

InSeq(x, s) == \E i \in 1..Len(s) : s[i] = x

\* mutant: the page bound tested with <= instead of <
CrawlContinues_OffByOne(st) ==
    st.urls_to_visit # <<>> /\ Len(st.pages_data) <= max_pages

\* mutant: the loop ends one page short of max_pages
CrawlContinues_StopsEarly(st) ==
    st.urls_to_visit # <<>> /\ Len(st.pages_data) < max_pages - 1

\* while urls_to_visit and len(pages_data) < max_pages
CrawlContinues(st) == st.urls_to_visit # <<>> /\ Len(st.pages_data) < max_pages

\* if current_url in visited_urls: continue
SkipsVisited(st) == Head(st.urls_to_visit) \in st.visited_urls

\* whether this iteration calls _scrape_page(current_url)
ScrapeInvoked(st) == CrawlContinues(st) /\ ~SkipsVisited(st)

\* mutant: every link found is appended
Enqueue_Unchecked(queue, visited, new_urls) == queue \o new_urls

\* for url in new_urls: if url not in visited_urls and url not in
\* urls_to_visit: urls_to_visit.append(url)
RECURSIVE Enqueue(_, _, _)
Enqueue(queue, visited, new_urls) ==
    IF new_urls = <<>> THEN queue
    ELSE IF Head(new_urls) \notin visited /\ ~InSeq(Head(new_urls), queue)
         THEN Enqueue(Append(queue, Head(new_urls)), visited, Tail(new_urls))
         ELSE Enqueue(queue, visited, Tail(new_urls))

\* mutant: a page that cannot be extracted ends the crawl
ScrapeSiteIter_AbortOnFailure(st, page_data, new_urls) ==
    LET current_url == Head(st.urls_to_visit)
        rest        == Tail(st.urls_to_visit)
    IN IF SkipsVisited(st) THEN [st EXCEPT !.urls_to_visit = rest]
       ELSE IF page_data = None THEN [st EXCEPT !.urls_to_visit = <<>>]
       ELSE LET pages   == Append(st.pages_data, page_data)
                visited == st.visited_urls \cup {current_url}
            IN [visited_urls  |-> visited,
                pages_data    |-> pages,
                urls_to_visit |->
                    IF Len(pages) < max_pages
                    THEN Enqueue(rest, visited, new_urls)
                    ELSE rest]

\* one iteration of the while loop: page_data is what _scrape_page returned
\* for the popped URL (None on any failure), new_urls what
\* _find_related_urls returned for it
ScrapeSiteIter(st, page_data, new_urls) ==
    LET current_url == Head(st.urls_to_visit)
        rest        == Tail(st.urls_to_visit)
    IN IF SkipsVisited(st) THEN [st EXCEPT !.urls_to_visit = rest]
       ELSE IF page_data = None THEN [st EXCEPT !.urls_to_visit = rest]
       ELSE LET pages   == Append(st.pages_data, page_data)
                visited == st.visited_urls \cup {current_url}
            IN [visited_urls  |-> visited,
                pages_data    |-> pages,
                urls_to_visit |->
                    IF Len(pages) < max_pages
                    THEN Enqueue(rest, visited, new_urls)
                    ELSE rest]

(***************************************************************************)
(* SpecCrawl: the loop of _scrape_site on a site whose pages and links are *)
(* chosen as the crawl meets them; every fetch may fail.                   *)
(***************************************************************************)
MaxHrefs == 3

BaseUrls == {"https://lib.io/", "https://docs.lib.io/"}

\* the hrefs a page may carry: pages of the site and a page of another site
Hrefs == {"/", "/guide", "/api", "/blog", "https://other.net/guide"}

AllUrls == {FullUrl(h, b) : h \in Hrefs, b \in BaseUrls}

\* what _find_related_urls can return for a page of the site of base: its
\* result on every list of at most MaxHrefs hrefs
RelatedLists ==
    [b \in BaseUrls |->
        {find_related_urls(hs, b) : hs \in BoundedSeqs(Hrefs, MaxHrefs)}]

CrawlPage(url) == [url |-> url]

CrawlState == [visited_urls  |-> visited_urls,
               pages_data    |-> pages_data,
               urls_to_visit |-> urls_to_visit]

\* the URLs of s that are new to the history seen, in order
RECURSIVE NewlySeen(_, _)
NewlySeen(s, seen) ==
    IF s = <<>> THEN <<>>
    ELSE IF InSeq(Head(s), seen) THEN NewlySeen(Tail(s), seen)
         ELSE <<Head(s)>> \o NewlySeen(Tail(s), Append(seen, Head(s)))

CrawlIdle ==
    /\ base_url = None
    /\ visited_urls = {}
    /\ pages_data = <<>>
    /\ urls_to_visit = <<>>
    /\ crawl_pc = "idle"
    /\ scrape_calls = <<>>
    /\ first_seen = <<>>
    /\ revisits = 0
    /\ crawl_last = None

CrawlInit ==
    /\ base_url \in BaseUrls
    /\ visited_urls = {}
    /\ pages_data = <<>>
    /\ urls_to_visit = <<base_url>>
    /\ crawl_pc = "loop"
    /\ scrape_calls = [u \in AllUrls |-> 0]
    /\ first_seen = <<base_url>>
    /\ revisits = 0
    /\ crawl_last = None

\* one iteration: pop, maybe extract, maybe enqueue
CrawlIter ==
    /\ crawl_pc = "loop"
    /\ CrawlContinues(CrawlState)
    /\ \E ok \in BOOLEAN, new_urls \in RelatedLists[base_url] :
         LET st          == CrawlState
             current_url == Head(urls_to_visit)
             invoked     == ScrapeInvoked(st)
             page_data   == IF invoked /\ ok THEN CrawlPage(current_url) ELSE None
             nxt         == ScrapeSiteIter(st, page_data, new_urls)
         IN /\ (~invoked \/ ~ok) => new_urls = <<>>
            /\ visited_urls' = nxt.visited_urls
            /\ pages_data' = nxt.pages_data
            /\ urls_to_visit' = nxt.urls_to_visit
            /\ scrape_calls' =
                 IF invoked
                 THEN [scrape_calls EXCEPT ![current_url] = @ + 1]
                 ELSE scrape_calls
            /\ revisits' =
                 IF invoked /\ current_url \in visited_urls
                 THEN revisits + 1 ELSE revisits
            /\ first_seen' = first_seen \o NewlySeen(
                 SelectSeq(nxt.urls_to_visit, LAMBDA u : ~InSeq(u, Tail(urls_to_visit))),
                 first_seen)
            /\ crawl_last' = [url |-> current_url, invoked |-> invoked,
                              ok |-> invoked /\ ok,
                              offered |-> IF Len(nxt.pages_data) < max_pages
                                          THEN Len(new_urls) ELSE 0]
    /\ UNCHANGED <<base_url, crawl_pc>>
    /\ UNCHANGED <<chunkVars, resolveVars, serverVars>>

\* the loop condition is false: return the bundle
CrawlReturn ==
    /\ crawl_pc = "loop"
    /\ ~CrawlContinues(CrawlState)
    /\ crawl_pc' = "returned"
    /\ UNCHANGED <<base_url, visited_urls, pages_data, urls_to_visit,
                   scrape_calls, first_seen, revisits, crawl_last>>
    /\ UNCHANGED <<chunkVars, resolveVars, serverVars>>


(***************************************************************************)
(* The URL resolver: _discover_documentation_url, _check_url_exists and    *)
(* _search_github_docs.                                                    *)
(***************************************************************************)
\* self.doc_patterns: each "prefix{}suffix" as <<prefix, suffix>>
doc_patterns ==
    << <<"https://", ".readthedocs.io/">>,
       <<"https://docs.", ".com/">>,
       <<"https://", ".org/docs/">>,
       <<"https://", ".org/documentation/">>,
       <<"https://github.com/", "/wiki">>,
       <<"https://", ".dev/">>,
       <<"https://", ".js.org/">> >>

\* pattern.format(x)
Format(pattern, x) == pattern[1] \o x \o pattern[2]

\* self.known_docs
known_docs ==
    ("react" :> "https://react.dev/") @@
    ("vue" :> "https://vuejs.org/guide/") @@
    ("angular" :> "https://angular.io/docs") @@
    ("svelte" :> "https://svelte.dev/docs") @@
    ("nextjs" :> "https://nextjs.org/docs") @@
    ("nuxt" :> "https://nuxt.com/docs") @@
    ("fastapi" :> "https://fastapi.tiangolo.com/") @@
    ("django" :> "https://docs.djangoproject.com/") @@
    ("flask" :> "https://flask.palletsprojects.com/") @@
    ("express" :> "https://expressjs.com/") @@
    ("nodejs" :> "https://nodejs.org/docs/") @@
    ("requests" :> "https://requests.readthedocs.io/") @@
    ("pandas" :> "https://pandas.pydata.org/docs/") @@
    ("numpy" :> "https://numpy.org/doc/") @@
    ("scipy" :> "https://docs.scipy.org/") @@
    ("matplotlib" :> "https://matplotlib.org/stable/") @@
    ("sklearn" :> "https://scikit-learn.org/stable/documentation.html") @@
    ("tensorflow" :> "https://www.tensorflow.org/api_docs") @@
    ("pytorch" :> "https://pytorch.org/docs/") @@
    ("opencv" :> "https://docs.opencv.org/") @@
    ("aws" :> "https://docs.aws.amazon.com/") @@
    ("gcp" :> "https://cloud.google.com/docs") @@
    ("azure" :> "https://docs.microsoft.com/azure/") @@
    ("kubernetes" :> "https://kubernetes.io/docs/") @@
    ("docker" :> "https://docs.docker.com/") @@
    ("redis" :> "https://redis.io/documentation") @@
    ("mongodb" :> "https://docs.mongodb.com/") @@
    ("postgresql" :> "https://www.postgresql.org/docs/") @@
    ("mysql" :> "https://dev.mysql.com/doc/") @@
    ("tailwind" :> "https://tailwindcss.com/docs") @@
    ("bootstrap" :> "https://getbootstrap.com/docs/") @@
    ("material-ui" :> "https://mui.com/") @@
    ("ant-design" :> "https://ant.design/docs/") @@
    ("lodash" :> "https://lodash.com/docs/") @@
    ("axios" :> "https://axios-http.com/docs/") @@
    ("jest" :> "https://jestjs.io/docs/") @@
    ("cypress" :> "https://docs.cypress.io/") @@
    ("webpack" :> "https://webpack.js.org/concepts/") @@
    ("vite" :> "https://vitejs.dev/guide/") @@
    ("typescript" :> "https://www.typescriptlang.org/docs/")

\* github_patterns of _search_github_docs (library_name as given, not
\* lower-cased)
github_patterns(library_name) ==
    << "https://github.com/" \o library_name \o "/" \o library_name,
       "https://github.com/" \o library_name,
       "https://" \o library_name \o ".github.io/" >>

\* the URLs probed for a name without a registry entry, in the order tried
Candidates(library_name) ==
    [i \in 1..Len(doc_patterns) |-> Format(doc_patterns[i], Lower(library_name))]
        \o github_patterns(library_name)

\* The session after `if not self.session: self.session = ClientSession()`;
\* a session is "none" (never created), "open" or "closed".
SessionForProbe(sess) == IF sess = "none" THEN "open" ELSE sess

\* _check_url_exists: response.status == 200; a HEAD on a closed session
\* raises, and every exception gives False.  answer is what the site
\* replies: "200", "404" or "error" (the request raises).
check_url_exists(sess, answer) == SessionForProbe(sess) = "open" /\ answer = "200"

\* mutant: every candidate is probed, the first that exists is returned
ProbeFrom_ProbesAll(cands, i, probe, sess, probed) ==
    LET hits == {k \in i..Len(cands) : check_url_exists(sess, probe[k])}
    IN [url |-> IF hits = {} THEN NoneStr
                ELSE cands[CHOOSE k \in hits : \A h \in hits : k <= h],
        probed |-> probed \o SubSeq(cands, i, Len(cands))]

\* the first candidate from index i on whose probe succeeds; probe[k] is the
\* site's answer to the probe of candidate k.
\* Returns [url, probed]: the URL found (or None) and the URLs probed.
RECURSIVE ProbeFrom(_, _, _, _, _)
ProbeFrom(cands, i, probe, sess, probed) ==
    IF i > Len(cands) THEN [url |-> NoneStr, probed |-> probed]
    ELSE IF check_url_exists(sess, probe[i])
         THEN [url |-> cands[i], probed |-> Append(probed, cands[i])]
         ELSE ProbeFrom(cands, i + 1, probe, sess, Append(probed, cands[i]))

\* mutant: the registry looked up with the name as given
discover_documentation_url_NoLower(library_name, probe, sess) ==
    IF library_name \in DOMAIN known_docs
    THEN [url |-> known_docs[library_name], probed |-> <<>>]
    ELSE ProbeFrom(Candidates(library_name), 1, probe, sess, <<>>)

\* _discover_documentation_url
discover_documentation_url(library_name, probe, sess) ==
    IF Lower(library_name) \in DOMAIN known_docs
    THEN [url |-> known_docs[Lower(library_name)], probed |-> <<>>]
    ELSE ProbeFrom(Candidates(library_name), 1, probe, sess, <<>>)

NumCandidates == Len(doc_patterns) + 3

(***************************************************************************)
(* SpecResolve: _discover_documentation_url on every name of LibraryNames, *)
(* every session state and every probe world of ProbeWorlds.               *)
(***************************************************************************)
LibraryNames == {"react", "React", "Vue", "my lib", "my_lib"}

Sessions == {"none", "open", "closed"}

MaxAnswering == 2

\* the sites' answers to the probes: at most MaxAnswering candidates exist
\* (answer 200), the probes of the candidates in errs raise, the rest
\* answer 404
ProbeWorlds ==
    {[i \in 1..NumCandidates |->
        IF i \in oks THEN "200" ELSE IF i \in errs THEN "error" ELSE "404"] :
     oks \in {S \in SUBSET (1..NumCandidates) : Cardinality(S) <= MaxAnswering},
     errs \in SUBSET {1, 3, 8, 10}}

ResolveIdle ==
    /\ res_name = ""
    /\ res_probe = <<>>
    /\ res_session = "none"
    /\ res_out = None
    /\ res_pc = "idle"

ResolveInit ==
    /\ res_name \in LibraryNames
    /\ res_probe \in ProbeWorlds
    /\ res_session \in Sessions
    /\ res_out = None
    /\ res_pc = "input"

Resolve ==
    /\ res_pc = "input"
    /\ res_out' = discover_documentation_url(res_name, res_probe, res_session)
    /\ res_pc' = "done"
    /\ UNCHANGED <<res_name, res_probe, res_session>>
    /\ UNCHANGED <<chunkVars, crawlVars, serverVars>>

(***************************************************************************)
(* The cache: one JSON file per library under cache_dir.                   *)
(***************************************************************************)
WordChars == LowerCase \o UpperCase \o "0123456789_"

InString(c, s) == \E i \in 1..Len(s) : CharAt(s, i) = c

\* re.sub(r'[^\w\-_.]', '_', library_name)
RECURSIVE SafeName(_)
SafeName(s) ==
    IF s = "" THEN ""
    ELSE (IF InString(Head(s), WordChars \o "-.") THEN Head(s) ELSE "_")
             \o SafeName(Tail(s))

\* _get_cache_path
get_cache_path(library_name) == SafeName(library_name) \o "_docs.json"

(***************************************************************************)
(* _scrape_page on the pages of a site.  Every site of the model has the   *)
(* same two pages: the page at base_url and the page <origin>/guide.       *)
(***************************************************************************)
min_content == 100

min_code == 10

GuideUrl(base) == Origin(base) \o "/guide"

\* the cleaned text of the page's content element
SiteContent(url, base) ==
    IF url = base THEN <<Run("a", 300), Run(".", 1), SP, Run("a", 300), Run(".", 1)>>
    ELSE IF url = GuideUrl(base) THEN <<Run("a", 250), Run(".", 1)>>
    ELSE <<Run("a", 50)>>

\* the stripped texts of the page's <code> and <pre> elements
SiteCode(url, base) ==
    IF url = base THEN << <<Run("c", 15)>>, <<Run("c", 5)>> >> ELSE <<>>

\* the hrefs of the page's <a> elements
SiteHrefs(url, base) ==
    IF url = base THEN <<"/guide", "/blog", "https://other.net/guide">>
    ELSE <<"/", "/guide">>

\* _scrape_page: None unless the GET answers 200 and the cleaned text has
\* at least 100 characters; fetched tells whether the GET answered 200
scrape_page(url, library_name, base, fetched) ==
    IF ~fetched THEN None
    ELSE IF TextLen(Strip(SiteContent(url, base))) < min_content THEN None
    ELSE [url         |-> url,
          title       |-> url,
          content     |-> SiteContent(url, base),
          code_blocks |-> SelectSeq(SiteCode(url, base), LAMBDA c : TextLen(c) > min_code),
          chunks      |-> chunk_content(SiteContent(url, base), url, library_name),
          library     |-> library_name]

\* which pages of a site do not answer 200: "nothing", "base" (the page at
\* base_url) or "linked" (every other page); Down is what the server's
\* specifications draw from
Down == {"nothing", "base"}

Answers(url, base, down) ==
    ~ \/ down = "base" /\ url = base
      \/ down = "linked" /\ url # base

\* the loop of _scrape_site run to its end on the site of base.
\* lp = [st, fetches]: the loop state and the number of _scrape_page calls
\* so far.
RECURSIVE ScrapeSiteLoop(_, _, _, _)
ScrapeSiteLoop(lp, base, library_name, down) ==
    IF ~CrawlContinues(lp.st) THEN lp
    ELSE LET current_url == Head(lp.st.urls_to_visit)
             invoked     == ScrapeInvoked(lp.st)
             page_data   == IF invoked
                            THEN scrape_page(current_url, library_name, base,
                                             Answers(current_url, base, down))
                            ELSE None
             new_urls    == IF page_data = None THEN <<>>
                            ELSE find_related_urls(SiteHrefs(current_url, base), base)
         IN ScrapeSiteLoop(
                [st      |-> ScrapeSiteIter(lp.st, page_data, new_urls),
                 fetches |-> lp.fetches + (IF invoked THEN 1 ELSE 0)],
                base, library_name, down)

\* _scrape_site from its first line to the end of its loop
ScrapeSiteRun(base, library_name, down) ==
    ScrapeSiteLoop(
        [st |-> [visited_urls |-> {}, pages_data |-> <<>>,
                 urls_to_visit |-> <<base>>],
         fetches |-> 0],
        base, library_name, down)

(***************************************************************************)
(* The vector store: four collections, each a function from document id   *)
(* to [content, metadata].                                                 *)
(***************************************************************************)
CollectionNames == {"docs", "api", "examples", "tutorials"}

EmptyCollections == [c \in CollectionNames |-> <<>>]

Ids(col) == DOMAIN col

SeqRange(s) == {s[i] : i \in 1..Len(s)}

\* mutant: the batch takes the place of what the collection held
ChromaAdd_Replace(col, documents) ==
    [id \in {d.id : d \in SeqRange(documents)} |->
        LET d == CHOOSE d \in SeqRange(documents) : d.id = id
        IN [content |-> d.content, metadata |-> d.metadata]]

\* collection.add of Chroma: a batch with a repeated id is rejected; a
\* document whose id the collection already holds is ignored
ChromaAdd(col, documents) ==
    LET new == {d \in SeqRange(documents) : d.id \notin DOMAIN col} IN
    [id \in DOMAIN col \cup {d.id : d \in new} |->
        IF id \in DOMAIN col THEN col[id]
        ELSE LET d == CHOOSE d \in new : d.id = id
             IN [content |-> d.content, metadata |-> d.metadata]]

HasRepeatedId(documents) ==
    \E i, j \in 1..Len(documents) : i # j /\ documents[i].id = documents[j].id

\* add_documents: returns [ok, collections].  works is FALSE when the
\* embedding provider or the index raises; every exception gives False
add_documents(cols, documents, collection_type, works) ==
    IF collection_type \notin DOMAIN cols THEN [ok |-> FALSE, collections |-> cols]
    ELSE IF ~works \/ HasRepeatedId(documents)
    THEN [ok |-> FALSE, collections |-> cols]
    ELSE [ok |-> TRUE,
          collections |->
              [cols EXCEPT ![collection_type] = ChromaAdd(@, documents)]]

\* collection.delete(ids=doc_ids): ids the collection does not hold are
\* passed over
ChromaDelete(col, doc_ids) == [id \in DOMAIN col \ doc_ids |-> col[id]]

\* delete_documents: returns [ok, collections]; works is FALSE when the
\* index raises
delete_documents(cols, doc_ids, collection_type, works) ==
    IF collection_type \notin DOMAIN cols \/ ~works
    THEN [ok |-> FALSE, collections |-> cols]
    ELSE [ok |-> TRUE,
          collections |-> [cols EXCEPT ![collection_type] = ChromaDelete(@, doc_ids)]]

\* update_document: delete_documents, its result dropped, then
\* add_documents, whose result is returned
update_document(cols, doc_id, new_content, metadata, collection_type, delete_works, add_works) ==
    add_documents(
        delete_documents(cols, {doc_id}, collection_type, delete_works).collections,
        <<[id |-> doc_id, content |-> new_content, metadata |-> metadata]>>,
        collection_type, add_works)

\* the `where` filter of collection.query: None, or a dict every entry of
\* which the metadata must carry
Matches(metadata, filter_metadata) ==
    filter_metadata = None
    \/ \A k \in DOMAIN filter_metadata :
         k \in DOMAIN metadata /\ metadata[k] = filter_metadata[k]

\* `1 - results["distances"][0][i]`: the distance of a document from the
\* query is not modelled, the entry names the document it is the distance of
Similarity(id) == [one_minus_distance_of |-> id]

\* mutant: an entry without its similarity
SearchResult_NoSimilarity(col, id) ==
    [content |-> col[id].content, metadata |-> col[id].metadata, id |-> id]

SearchResult(col, id) ==
    [content |-> col[id].content, metadata |-> col[id].metadata,
     similarity |-> Similarity(id), id |-> id]

\* mutant: a search that fails reports the failure as an entry of the list
search_documents_ErrorEntry(cols, collection_type, n_results, filter_metadata, works) ==
    IF collection_type \notin DOMAIN cols \/ ~works \/ n_results < 1
    THEN {{[error |-> "search failed"]}}
    ELSE LET col   == cols[collection_type]
             match == {id \in DOMAIN col : Matches(col[id].metadata, filter_metadata)}
             k     == IF Cardinality(match) < n_results
                      THEN Cardinality(match) ELSE n_results
         IN {{SearchResult(col, id) : id \in S} :
                S \in {T \in SUBSET match : Cardinality(T) = k}}

\* what search_documents may return: [] for an unknown collection_type and
\* when the embedding provider or the index raises; else the n_results
\* nearest of the documents that match the filter.  Distances are not
\* modelled: any n_results of the matching documents may be the nearest,
\* and the list is kept as a set.
search_documents(cols, collection_type, n_results, filter_metadata, works) ==
    IF collection_type \notin DOMAIN cols \/ ~works \/ n_results < 1 THEN {{}}
    ELSE LET col   == cols[collection_type]
             match == {id \in DOMAIN col : Matches(col[id].metadata, filter_metadata)}
             k     == IF Cardinality(match) < n_results
                      THEN Cardinality(match) ELSE n_results
         IN {{SearchResult(col, id) : id \in S} :
                S \in {T \in SUBSET match : Cardinality(T) = k}}

\* mutant: the first count that raises ends the loop
get_collection_stats_Abort(cols, failing) ==
    IF failing = {} THEN
        [name \in CollectionNames |->
            [document_count |-> Cardinality(DOMAIN cols[name]),
             collection_name |-> name]]
    ELSE [name \in failing |-> [error |-> "count failed"]]

\* get_collection_stats: one entry per collection, the count of the
\* collection or, for the collections in failing whose count() raises, the
\* error
get_collection_stats(cols, failing) ==
    [name \in CollectionNames |->
        IF name \notin failing
        THEN [document_count |-> Cardinality(DOMAIN cols[name]),
              collection_name |-> name]
        ELSE [error |-> "count failed"]]

(***************************************************************************)
(* _add_to_vector_store                                                    *)
(***************************************************************************)
\* hashlib.md5(text.encode()).hexdigest(): the digest stands for its text
\* (no two texts of the model share a digest)
Md5(text) == text

\* mutant: the chunk id itself is the storage key
ChunkDocId_RawChunkId(library_name, chunk) == Md5(chunk.chunk_id)

ChunkDocId(library_name, chunk) ==
    Md5(library_name \o "_" \o chunk.url \o "_" \o chunk.chunk_id)

CodeDocId(library_name, page, i) ==
    Md5(library_name \o "_code_" \o page.url \o "_" \o ToString(i))

Metadata(library_name, url, title, type) ==
    [library |-> library_name, url |-> url, title |-> title, type |-> type]

\* the documents of one page: one per chunk, then one per code block
PageDocuments(page, library_name) ==
    [i \in 1..Len(page.chunks) |->
        [id       |-> ChunkDocId(library_name, page.chunks[i]),
         content  |-> page.chunks[i].content,
         metadata |-> Metadata(library_name, page.chunks[i].url, page.title,
                               "documentation")]]
    \o
    [i \in 1..Len(page.code_blocks) |->
        [id       |-> CodeDocId(library_name, page, i - 1),
         content  |-> page.code_blocks[i],
         metadata |-> Metadata(library_name, page.url, page.title,
                               "code_example")]]

RECURSIVE BundleDocumentsFrom(_, _, _)
BundleDocumentsFrom(pages, i, library_name) ==
    IF i > Len(pages) THEN <<>>
    ELSE PageDocuments(pages[i], library_name)
             \o BundleDocumentsFrom(pages, i + 1, library_name)

\* the list `documents` built from scraped_data
BundleDocuments(scraped_data, library_name) ==
    BundleDocumentsFrom(scraped_data.pages, 1, library_name)

OfType(documents, type) == SelectSeq(documents, LAMBDA d : d.metadata.type = type)

\* mutant: the collections are emptied before the bundle is added
add_to_vector_store_Fresh(cols, scraped_data, library_name, works) ==
    LET documents == BundleDocuments(scraped_data, library_name)
        docs      == OfType(documents, "documentation")
        examples  == OfType(documents, "code_example")
        cols1     == IF docs # <<>>
                     THEN add_documents(EmptyCollections, docs, "docs",
                                        works["docs"]).collections
                     ELSE EmptyCollections
    IN IF examples # <<>>
       THEN add_documents(cols1, examples, "examples", works["examples"]).collections
       ELSE cols1

\* mutant: the code examples go to the api collection
add_to_vector_store_ExamplesToApi(cols, scraped_data, library_name, works) ==
    LET documents == BundleDocuments(scraped_data, library_name)
        docs      == OfType(documents, "documentation")
        examples  == OfType(documents, "code_example")
        cols1     == IF docs # <<>>
                     THEN add_documents(cols, docs, "docs", works["docs"]).collections
                     ELSE cols
    IN IF examples # <<>>
       THEN add_documents(cols1, examples, "api", works["examples"]).collections
       ELSE cols1

\* _add_to_vector_store: the collections afterwards.  works[c] is FALSE
\* when the add to collection c raises
add_to_vector_store(cols, scraped_data, library_name, works) ==
    LET documents == BundleDocuments(scraped_data, library_name)
        docs      == OfType(documents, "documentation")
        examples  == OfType(documents, "code_example")
        cols1     == IF docs # <<>>
                     THEN add_documents(cols, docs, "docs", works["docs"]).collections
                     ELSE cols
    IN IF examples # <<>>
       THEN add_documents(cols1, examples, "examples", works["examples"]).collections
       ELSE cols1

(***************************************************************************)
(* The server's inputs, and the runs of the crawl and of the resolver on   *)
(* them (computed once).                                                   *)
(***************************************************************************)
ServerLibs == {"React", "my lib"}

SuppliedUrl == "https://lib.io/"

\* the probed sites: every candidate answers 404, or the first one exists
ServerProbes ==
    {[i \in 1..NumCandidates |-> "404"],
     [i \in 1..NumCandidates |-> IF i = 1 THEN "200" ELSE "404"]}

CachePaths == [l \in ServerLibs |-> get_cache_path(l)]

Registered == {l \in ServerLibs : Lower(l) \in DOMAIN known_docs}

Resolutions ==
    [l \in ServerLibs |-> [w \in ServerProbes |-> [s \in Sessions |->
        discover_documentation_url(l, w, s)]]]

ServerBases ==
    ({SuppliedUrl}
     \cup {Resolutions[l][w][s].url : l \in ServerLibs, w \in ServerProbes, s \in Sessions})
    \ {NoneStr}

CrawlRuns ==
    [b \in ServerBases |-> [l \in ServerLibs |-> [d \in Down |->
        ScrapeSiteRun(b, l, d)]]]

\* _scrape_site: the bundle, and the number of pages fetched for it
scrape_site(base, library_name, down, now) ==
    LET lp == CrawlRuns[base][library_name][down]
    IN [bundle  |-> [library    |-> library_name,
                     base_url   |-> base,
                     pages      |-> lp.st.pages_data,
                     scraped_at |-> now],
        fetches |-> lp.fetches]

(***************************************************************************)
(* scrape_library                                                          *)
(***************************************************************************)
Truthy(v) == v # NoneStr /\ v # ""

PagesCount(bundle) == Len(bundle.pages)

RECURSIVE ChunksFrom(_, _)
ChunksFrom(pages, i) ==
    IF i > Len(pages) THEN 0 ELSE Len(pages[i].chunks) + ChunksFrom(pages, i + 1)

\* sum(len(page['chunks']) for page in scraped_data['pages'])
ChunksCount(bundle) == ChunksFrom(bundle.pages, 1)

\* the dict scrape_library returns after a crawl (the dict it returns
\* after loading the cache is the bundle itself: json.load gives back the
\* strings, lists and numbers that json.dump wrote)
Summary(library_name, documentation_url, scraped_data) ==
    [library      |-> library_name,
     base_url     |-> documentation_url,
     pages_count  |-> PagesCount(scraped_data),
     chunks_count |-> ChunksCount(scraped_data),
     last_updated |-> scraped_data.scraped_at]

DocIds(scraped_data, library_name) ==
    {d.id : d \in SeqRange(BundleDocuments(scraped_data, library_name))}

\* mutant: the cache file is loaded whenever it exists
LoadsCache_IgnoreForce(cache_path, force_reindex) ==
    cache_path \in DOMAIN cache

\* `if cache_path.exists() and not force_reindex`
LoadsCache(cache_path, force_reindex) ==
    cache_path \in DOMAIN cache /\ ~force_reindex

\* What the environment does during one call:
\*   probe  the probed sites' answers, per candidate
\*   down   the pages of the site that do not answer 200
\*   io     the cache file access: "ok", or "fails" (open raises)
\*   works  per collection, whether an add to it goes through
\* scrape_library returns the result together with the state it leaves and
\* what it did: hit (the cache file was loaded), probed (the URLs probed),
\* url (the documentation URL crawled, if any), fetches (pages requested),
\* indexed (the bundle handed to _add_to_vector_store, or None).

\* the outcome of a call that fails before it did anything
Untouched ==
    [result |-> None, cache |-> cache, collections |-> collections,
     session |-> session, clock |-> clock, hit |-> FALSE,
     probed |-> <<>>, url |-> NoneStr, fetches |-> 0, indexed |-> None]

\* lines 176-184: load the cache file, index the bundle, return it
LoadCached(library_name, cached_data, env) ==
    IF env.io # "ok" THEN Untouched
    ELSE [Untouched EXCEPT
            !.result = cached_data,
            !.collections = add_to_vector_store(collections, cached_data,
                                                library_name, env.works),
            !.hit = TRUE,
            !.indexed = cached_data]

\* lines 187-191: the URL given, or the one the resolver finds
FindUrl(library_name, documentation_url, env) ==
    IF Truthy(documentation_url)
    THEN [url |-> documentation_url, probed |-> <<>>]
    ELSE Resolutions[library_name][env.probe][session]

\* lines 197-215: write the cache file, index the bundle, return the summary
SaveCrawled(library_name, found, crawl, env) ==
    LET done == [Untouched EXCEPT
                   !.session = "closed",
                   !.clock = crawl.bundle.scraped_at,
                   !.probed = found.probed,
                   !.url = found.url,
                   !.fetches = crawl.fetches]
    IN IF env.io # "ok" THEN done
       ELSE [done EXCEPT
               !.result = Summary(library_name, found.url, crawl.bundle),
               !.cache = (CachePaths[library_name] :> crawl.bundle) @@ cache,
               !.collections = add_to_vector_store(collections, crawl.bundle,
                                                   library_name, env.works),
               !.indexed = crawl.bundle]

\* mutant: without a URL an empty bundle is saved and returned
CrawlFound_EmptyBundle(library_name, found, env) ==
    IF found.url = NoneStr
    THEN SaveCrawled(library_name, found,
                     [bundle  |-> [library |-> library_name, base_url |-> NoneStr,
                                   pages |-> <<>>, scraped_at |-> clock],
                      fetches |-> 0],
                     env)
    ELSE SaveCrawled(library_name, found,
                     scrape_site(found.url, library_name, env.down, clock + 1),
                     env)

\* lines 187-215: without a URL fail; else crawl inside `async with self`
\* (a session is opened, and closed on exit) and save
CrawlFound(library_name, found, env) ==
    IF found.url = NoneStr
    THEN [Untouched EXCEPT
            !.session = IF found.probed = <<>> THEN session
                        ELSE SessionForProbe(session),
            !.probed = found.probed]
    ELSE SaveCrawled(library_name, found,
                     scrape_site(found.url, library_name, env.down, clock + 1),
                     env)

\* scrape_library
scrape_library(library_name, documentation_url, force_reindex, env) ==
    IF LoadsCache(CachePaths[library_name], force_reindex)
    THEN LoadCached(library_name, cache[CachePaths[library_name]], env)
    ELSE CrawlFound(library_name,
                    FindUrl(library_name, documentation_url, env), env)

(***************************************************************************)
(* search_multi_collection                                                 *)
(***************************************************************************)
\* mutant: a collection without a match is left out of the map
search_multi_collection_OmitEmpty(cols, found) ==
    [c \in {k \in DOMAIN cols : found[k] # {}} |-> found[c]]

\* search_multi_collection: found[c] is what search_documents returned for
\* collection c
search_multi_collection(cols, found) ==
    [c \in DOMAIN cols |-> found[c]]

(***************************************************************************)
(* The server's state: one scraper and one vector store, created at        *)
(* start-up over an empty cache directory and an empty index.  Requests    *)
(* are handled one at a time; op is the request being handled              *)
(* (op.pc # "done") or the last one handled.  clock counts the crawls:     *)
(* a handler that may crawl starts only while clock < MaxClock.            *)
(***************************************************************************)
ServerIdle ==
    /\ cache = <<>>
    /\ collections = EmptyCollections
    /\ session = "none"
    /\ clock = 0
    /\ op = [kind |-> "none", pc |-> "done"]

ServerInit == ServerIdle

\* no request is being handled
Idle == op.pc = "done"

MaxClock == 2

\* the environments of a scrape_library call
Envs ==
    [probe : ServerProbes, down : Down, io : {"ok", "fails"},
     works : [{"docs", "examples"} -> BOOLEAN]]

\* the environments that differ in what the call reads: a call that does
\* not probe takes one probe world, a call that loads the cache one site
EnvsFor(library_name, documentation_url, force_reindex) ==
    {env \in Envs :
        /\ (LoadsCache(CachePaths[library_name], force_reindex)
              \/ Truthy(documentation_url)
              \/ library_name \in Registered)
             => env.probe = [i \in 1..NumCandidates |-> "404"]
        /\ LoadsCache(CachePaths[library_name], force_reindex)
             => env.down = "nothing"}

\* what a handler records of a scrape_library call
Call(library_name, documentation_url, force_reindex, env, r) ==
    [library_name      |-> library_name,
     documentation_url |-> documentation_url,
     force_reindex     |-> force_reindex,
     io                |-> env.io,
     probe             |-> env.probe,
     session_before    |-> session,
     result            |-> r.result,
     hit               |-> r.hit,
     probed            |-> r.probed,
     url               |-> r.url,
     fetches           |-> r.fetches,
     indexed           |-> r.indexed,
     cached_before     |-> IF CachePaths[library_name] \in DOMAIN cache
                           THEN cache[CachePaths[library_name]] ELSE None,
     ids_before        |-> [c \in DOMAIN collections |-> Ids(collections[c])]]

(***************************************************************************)
(* SpecIndex: the discovery handler (_discover_library, discover_library)  *)
(***************************************************************************)
\* result.get(key, default) of the discovery handlers
Get(result, key, default) ==
    IF key \in DOMAIN result THEN result[key] ELSE default

\* the response of _discover_library to the result of scrape_library
Response(result) ==
    IF result # None
    THEN [success      |-> TRUE,
          pages_count  |-> Get(result, "pages_count", 0),
          chunks_count |-> Get(result, "chunks_count", 0)]
    ELSE [success |-> FALSE]

\* the call went past the cache and had no URL to crawl: none supplied and
\* none resolved (lines 187-191 raise ValueError)
NoUrlFound(call) ==
    /\ call.force_reindex \/ call.cached_before = None
    /\ call.url = NoneStr

\* the state after the call of scrape_library returned r
Discovered(library_name, doc_url, force_reindex, env, r) ==
    /\ r.clock <= MaxClock
    /\ cache' = r.cache
    /\ collections' = r.collections
    /\ session' = r.session
    /\ clock' = r.clock
    /\ op' = [kind |-> "discover", pc |-> "done",
              call |-> Call(library_name, doc_url, force_reindex, env, r),
              response |-> Response(r.result),
              after_not_found |-> op.kind = "discover" /\ NoUrlFound(op.call)]

\* the library_name arguments of the discovery requests
IndexLibs == {"my lib"}

\* _discover_library
DiscoverLibrary ==
    /\ Idle
    /\ \E library_name \in IndexLibs, doc_url \in {NoneStr, SuppliedUrl},
          force_reindex \in BOOLEAN :
         \E env \in EnvsFor(library_name, doc_url, force_reindex) :
            Discovered(library_name, doc_url, force_reindex, env,
                       scrape_library(library_name, doc_url, force_reindex, env))
    /\ UNCHANGED <<chunkVars, crawlVars, resolveVars>>

(***************************************************************************)
(* SpecSearch: the search handlers (_search_documentation,                 *)
(* search_documentation), one await per step                               *)
(***************************************************************************)
Adapters == {"mcp", "http"}

\* the library argument of a search: absent, empty, or a name
LibraryHints == {NoneStr, ""} \cup ServerLibs

DocTypes == {"docs", "guides"}

MaxResults == {1, 5}

\* filter_metadata of the search handlers
FilterMetadata(library) ==
    IF Truthy(library) THEN [library |-> library] ELSE <<>>

\* `filter_metadata if filter_metadata else None`
FilterOrNone(filter_metadata) ==
    IF DOMAIN filter_metadata = {} THEN None ELSE filter_metadata

\* mutant: discovery whenever a library is named
WantsDiscovery_Always(adapter, results, library) == Truthy(library)

\* the condition under which the handlers discover and retry:
\* `if not results: if library:` (MCP),
\* `if not results and request.library and scraper` (HTTP; scraper is set
\* at start-up)
WantsDiscovery(adapter, results, library) ==
    results = {} /\ Truthy(library)

\* the handler up to its first search
SearchFirst ==
    /\ Idle
    /\ clock < MaxClock
    /\ \E adapter \in Adapters, library \in LibraryHints, doc_type \in DocTypes,
          max_results \in MaxResults, works \in BOOLEAN :
         \E results \in search_documents(collections, doc_type, max_results,
                           FilterOrNone(FilterMetadata(library)), works) :
            op' = [kind |-> "search", pc |-> "searched", adapter |-> adapter,
                   library |-> library, doc_type |-> doc_type,
                   max_results |-> max_results, results |-> results,
                   first |-> results, searches |-> 1, discoveries |-> 0]
    /\ UNCHANGED <<cache, collections, session, clock>>
    /\ UNCHANGED <<chunkVars, crawlVars, resolveVars>>

\* the state after the call of scrape_library returned r (its result is
\* not looked at)
AutoDiscovered(r) ==
    /\ cache' = r.cache
    /\ collections' = r.collections
    /\ session' = r.session
    /\ clock' = r.clock
    /\ op' = [op EXCEPT !.pc = "discovered", !.discoveries = @ + 1]

\* _auto_discover_library / `await scraper.scrape_library(request.library)`
SearchDiscover ==
    /\ op.kind = "search" /\ op.pc = "searched"
    /\ WantsDiscovery(op.adapter, op.results, op.library)
    /\ \E env \in EnvsFor(op.library, NoneStr, FALSE) :
         AutoDiscovered(scrape_library(op.library, NoneStr, FALSE, env))
    /\ UNCHANGED <<chunkVars, crawlVars, resolveVars>>

\* the retry search
SearchRetry ==
    /\ op.kind = "search" /\ op.pc = "discovered"
    /\ \E works \in BOOLEAN :
         \E results \in search_documents(collections, op.doc_type, op.max_results,
                           FilterMetadata(op.library), works) :
            op' = [op EXCEPT !.pc = "retried", !.results = results,
                             !.searches = @ + 1]
    /\ UNCHANGED <<cache, collections, session, clock>>
    /\ UNCHANGED <<chunkVars, crawlVars, resolveVars>>

\* format the results and return
SearchRespond ==
    /\ op.kind = "search"
    /\ \/ op.pc = "searched" /\ ~WantsDiscovery(op.adapter, op.results, op.library)
       \/ op.pc = "retried"
    /\ op' = [op EXCEPT !.pc = "done"]
    /\ UNCHANGED <<cache, collections, session, clock>>
    /\ UNCHANGED <<chunkVars, crawlVars, resolveVars>>

(***************************************************************************)
(* SpecStore: the vector store's API on batches of the documents of        *)
(* StoreDocs                                                               *)
(***************************************************************************)
MaxBatch == 2

StoreDocs ==
    {[id |-> "doc1", content |-> "React is a JavaScript library",
      metadata |-> [library |-> "react", type |-> "documentation"]],
     [id |-> "doc1", content |-> "React hooks like useState",
      metadata |-> [library |-> "react", type |-> "documentation"]],
     [id |-> "doc2", content |-> "useState is a React Hook",
      metadata |-> [library |-> "react", type |-> "api"]]}

StoreBatches == BoundedSeqs(StoreDocs, MaxBatch) \ {<<>>}

\* the collection_type arguments: two of the four names and an unknown one
StoreTypes == {"docs", "api", "guides"}

\* add_documents(documents, collection_type)
AddDocuments ==
    /\ \E documents \in StoreBatches, collection_type \in StoreTypes,
          works \in BOOLEAN :
         LET r == add_documents(collections, documents, collection_type, works)
         IN /\ collections' = r.collections
            /\ op' = [kind |-> "add", pc |-> "done", documents |-> documents,
                      collection_type |-> collection_type, works |-> works,
                      held_before |-> IF collection_type \in DOMAIN collections
                                      THEN Ids(collections[collection_type])
                                      ELSE {},
                      result |-> r.ok]
    /\ UNCHANGED <<cache, session, clock>>
    /\ UNCHANGED <<chunkVars, crawlVars, resolveVars>>

\* what the calls of search_documents, one per collection, may return
MultiFound(n_results, failing) ==
    [docs      : search_documents(collections, "docs", n_results, None,
                                  "docs" \notin failing),
     api       : search_documents(collections, "api", n_results, None,
                                  "api" \notin failing),
     examples  : search_documents(collections, "examples", n_results, None,
                                  "examples" \notin failing),
     tutorials : search_documents(collections, "tutorials", n_results, None,
                                  "tutorials" \notin failing)]

\* search_multi_collection(query, n_results); the searches of the
\* collections in failing raise inside search_documents
MultiSearch ==
    /\ \E n_results \in MaxResults, failing \in SUBSET CollectionNames :
         \E found \in MultiFound(n_results, failing) :
            op' = [kind |-> "multi", pc |-> "done", n_results |-> n_results,
                   failing |-> failing,
                   results |-> search_multi_collection(collections, found)]
    /\ UNCHANGED <<cache, collections, session, clock>>
    /\ UNCHANGED <<chunkVars, crawlVars, resolveVars>>

\* delete_documents(doc_ids, collection_type)
DeleteDocuments ==
    /\ \E doc_ids \in SUBSET {d.id : d \in StoreDocs},
          collection_type \in StoreTypes, works \in BOOLEAN :
         LET r == delete_documents(collections, doc_ids, collection_type, works)
         IN /\ collections' = r.collections
            /\ op' = [kind |-> "delete", pc |-> "done", doc_ids |-> doc_ids,
                      collection_type |-> collection_type, works |-> works,
                      result |-> r.ok]
    /\ UNCHANGED <<cache, session, clock>>
    /\ UNCHANGED <<chunkVars, crawlVars, resolveVars>>

\* update_document(doc_id, content, metadata, collection_type)
UpdateDocument ==
    /\ \E d \in StoreDocs, collection_type \in StoreTypes,
          delete_works \in BOOLEAN, add_works \in BOOLEAN :
         LET r == update_document(collections, d.id, d.content, d.metadata,
                                  collection_type, delete_works, add_works)
         IN /\ collections' = r.collections
            /\ op' = [kind |-> "update", pc |-> "done", doc_id |-> d.id,
                      content |-> d.content, metadata |-> d.metadata,
                      collection_type |-> collection_type,
                      delete_works |-> delete_works, add_works |-> add_works,
                      before |-> collections, result |-> r.ok]
    /\ UNCHANGED <<cache, session, clock>>
    /\ UNCHANGED <<chunkVars, crawlVars, resolveVars>>

\* get_collection_stats(); count() of the collections in failing raises
GetStats ==
    /\ \E failing \in SUBSET CollectionNames :
         op' = [kind |-> "stats", pc |-> "done", failing |-> failing,
                stats |-> get_collection_stats(collections, failing)]
    /\ UNCHANGED <<cache, collections, session, clock>>
    /\ UNCHANGED <<chunkVars, crawlVars, resolveVars>>

\* the n_results arguments: none, one, the default
StoreN == {0, 1, 5}

StoreFilters == {None, [library |-> "react"], [library |-> "vue"]}

\* search_documents(query, collection_type, n_results, filter_metadata)
SearchDocuments ==
    /\ \E collection_type \in StoreTypes, n_results \in StoreN,
          filter_metadata \in StoreFilters, works \in BOOLEAN :
         \E results \in search_documents(collections, collection_type,
                                         n_results, filter_metadata, works) :
            op' = [kind |-> "search", pc |-> "done",
                   collection_type |-> collection_type,
                   n_results |-> n_results,
                   filter_metadata |-> filter_metadata, works |-> works,
                   results |-> results]
    /\ UNCHANGED <<cache, collections, session, clock>>
    /\ UNCHANGED <<chunkVars, crawlVars, resolveVars>>

(***************************************************************************)
(* SpecRace: two scrape_library calls for one library on the one scraper   *)
(* of the server, as tasks of the event loop.  A task runs from one await  *)
(* to the next; the steps are the cache check with __aenter__, an          *)
(* iteration of the crawl, __aexit__, the cache write and the indexing.    *)
(***************************************************************************)
Tasks == {1, 2}

RaceLib == "my lib"

\* the library of the second call: the one of the first, or another
RaceLibs == {"my lib", "React"}

RaceEnv ==
    [probe |-> [i \in 1..NumCandidates |-> "404"], down |-> "nothing",
     io |-> "ok", works |-> [c \in {"docs", "examples"} |-> TRUE]]

\* mutant: the file is written only if there is none yet
WriteCache_IfAbsent(files, cache_path, scraped_data) ==
    IF cache_path \in DOMAIN files THEN files
    ELSE (cache_path :> scraped_data) @@ files

\* with open(cache_path, 'w') as f: json.dump(scraped_data, f)
WriteCache(files, cache_path, scraped_data) ==
    (cache_path :> scraped_data) @@ files

\* a call that has not started
TaskStart(library_name) ==
    [library |-> library_name, pc |-> "start", missed |-> FALSE,
     refused |-> FALSE,
     st |-> [visited_urls |-> {}, pages_data |-> <<>>, urls_to_visit |-> <<>>],
     fetches |-> 0, bundle |-> None, result |-> None]

RaceSet(t, task) ==
    LET tasks == [op.tasks EXCEPT ![t] = task]
    IN [kind |-> "race",
        pc |-> IF \A u \in Tasks : tasks[u].pc = "done" THEN "done" ELSE "running",
        tasks |-> tasks]

RaceInit ==
    /\ cache = <<>>
    /\ collections = EmptyCollections
    /\ session = "none"
    /\ clock = 0
    /\ \E library_name \in RaceLibs :
         op = [kind |-> "race", pc |-> "running",
               tasks |-> [t \in Tasks |->
                            TaskStart(IF t = 1 THEN RaceLib ELSE library_name)]]

\* lines 173-194: the cache check; with a cache file the call loads and
\* indexes it, without one it enters `async with self` (a new session takes
\* the place of self.session) and starts the crawl at the URL it was given
RaceStart(t) ==
    /\ op.tasks[t].pc = "start"
    /\ IF LoadsCache(CachePaths[op.tasks[t].library], FALSE)
       THEN LET r == LoadCached(op.tasks[t].library,
                                cache[CachePaths[op.tasks[t].library]], RaceEnv)
            IN /\ collections' = r.collections
               /\ op' = RaceSet(t, [op.tasks[t] EXCEPT !.pc = "done",
                                                       !.result = r.result])
               /\ UNCHANGED <<cache, session, clock>>
       ELSE /\ session' = "open"
            /\ op' = RaceSet(t, [op.tasks[t] EXCEPT
                                   !.pc = "crawl",
                                   !.missed = TRUE,
                                   !.st.urls_to_visit = <<SuppliedUrl>>])
            /\ UNCHANGED <<cache, collections, clock>>
    /\ UNCHANGED <<chunkVars, crawlVars, resolveVars>>

\* one iteration of the loop of _scrape_site; the requests go through
\* self.session as it is now, and raise when it is closed
RaceFetch(t) ==
    /\ op.tasks[t].pc = "crawl"
    /\ CrawlContinues(op.tasks[t].st)
    /\ \E answers \in BOOLEAN :
         LET st          == op.tasks[t].st
             current_url == Head(st.urls_to_visit)
             invoked     == ScrapeInvoked(st)
             page_data   == IF invoked
                            THEN scrape_page(current_url, op.tasks[t].library,
                                             SuppliedUrl,
                                             session = "open" /\ answers)
                            ELSE None
             new_urls    == IF page_data = None THEN <<>>
                            ELSE find_related_urls(
                                     SiteHrefs(current_url, SuppliedUrl), SuppliedUrl)
         IN op' = RaceSet(t, [op.tasks[t] EXCEPT
                                !.st = ScrapeSiteIter(st, page_data, new_urls),
                                !.fetches = @ + (IF invoked THEN 1 ELSE 0),
                                !.refused = @ \/ (invoked /\ ~answers)])
    /\ UNCHANGED <<cache, collections, session, clock>>
    /\ UNCHANGED <<chunkVars, crawlVars, resolveVars>>

\* the loop is over: _scrape_site returns the bundle and __aexit__ closes
\* self.session
RaceLeave(t) ==
    /\ op.tasks[t].pc = "crawl"
    /\ ~CrawlContinues(op.tasks[t].st)
    /\ clock' = clock + 1
    /\ session' = "closed"
    /\ op' = RaceSet(t, [op.tasks[t] EXCEPT
                           !.pc = "save",
                           !.bundle = [library    |-> op.tasks[t].library,
                                       base_url   |-> SuppliedUrl,
                                       pages      |-> op.tasks[t].st.pages_data,
                                       scraped_at |-> clock + 1]])
    /\ UNCHANGED <<cache, collections>>
    /\ UNCHANGED <<chunkVars, crawlVars, resolveVars>>

\* lines 197-201: the cache write
RaceSave(t) ==
    /\ op.tasks[t].pc = "save"
    /\ cache' = WriteCache(cache, CachePaths[op.tasks[t].library],
                           op.tasks[t].bundle)
    /\ op' = RaceSet(t, [op.tasks[t] EXCEPT !.pc = "index"])
    /\ UNCHANGED <<collections, session, clock>>
    /\ UNCHANGED <<chunkVars, crawlVars, resolveVars>>

\* lines 204-215: _add_to_vector_store and the summary
RaceIndex(t) ==
    /\ op.tasks[t].pc = "index"
    /\ collections' = add_to_vector_store(collections, op.tasks[t].bundle,
                                          op.tasks[t].library, RaceEnv.works)
    /\ op' = RaceSet(t, [op.tasks[t] EXCEPT
                           !.pc = "done",
                           !.result = Summary(op.tasks[t].library, SuppliedUrl,
                                              op.tasks[t].bundle)])
    /\ UNCHANGED <<cache, session, clock>>
    /\ UNCHANGED <<chunkVars, crawlVars, resolveVars>>

RaceStarts == \E t \in Tasks : RaceStart(t)

RaceFetches == \E t \in Tasks : RaceFetch(t)

RaceLeaves == \E t \in Tasks : RaceLeave(t)

RaceSaves == \E t \in Tasks : RaceSave(t)

RaceIndexes == \E t \in Tasks : RaceIndex(t)

(***************************************************************************)
(* SpecChunk: _chunk_content on every text of at most MaxRuns runs.        *)
(***************************************************************************)
MaxRuns == 6

HalfRun == 250

Alphabet == {Run("a", 1), Run("a", HalfRun), SP, Run(".", 1)}

Texts == BoundedSeqs(Alphabet, MaxRuns)

ChunkUrl == "https://lib.io/guide"

ChunkLib == "lib"

ChunkIdle ==
    /\ content = <<>>
    /\ chunks = <<>>
    /\ chunk_parts = <<>>
    /\ chunk_pc = "idle"

ChunkInit ==
    /\ content \in Texts
    /\ chunks = <<>>
    /\ chunk_parts = <<>>
    /\ chunk_pc = "input"

ChunkContent ==
    /\ chunk_pc = "input"
    /\ LET r == ChunkRun(content, ChunkUrl, ChunkLib) IN
         /\ chunks' = r.chunks
         /\ chunk_parts' = r.parts
    /\ chunk_pc' = "done"
    /\ UNCHANGED content
    /\ UNCHANGED <<crawlVars, resolveVars, serverVars>>

(***************************************************************************)
(* The specifications                                                      *)
(***************************************************************************)
InitChunk == ChunkInit /\ CrawlIdle /\ ResolveIdle /\ ServerIdle

NextChunk == ChunkContent

SpecChunk == InitChunk /\ [][NextChunk]_vars

InitCrawl == CrawlInit /\ ChunkIdle /\ ResolveIdle /\ ServerIdle

NextCrawl == CrawlIter \/ CrawlReturn

SpecCrawl == InitCrawl /\ [][NextCrawl]_vars

\* the crawl as a task that is scheduled: every request of the session ends
\* within its ClientTimeout (total=30), so an iteration that is enabled is
\* taken and the loop's exit is taken
SpecCrawlFair ==
    /\ InitCrawl
    /\ [][NextCrawl]_vars
    /\ WF_vars(CrawlIter)
    /\ WF_vars(CrawlReturn)


InitResolve == ResolveInit /\ ChunkIdle /\ CrawlIdle /\ ServerIdle

NextResolve == Resolve

SpecResolve == InitResolve /\ [][NextResolve]_vars

InitIndex == ServerInit /\ ChunkIdle /\ CrawlIdle /\ ResolveIdle

NextIndex == DiscoverLibrary

SpecIndex == InitIndex /\ [][NextIndex]_vars

InitSearch == ServerInit /\ ChunkIdle /\ CrawlIdle /\ ResolveIdle

NextSearch ==
    \/ SearchFirst
    \/ SearchDiscover
    \/ SearchRetry
    \/ SearchRespond

\* the event loop runs a handler to its end: each of its awaits returns
SpecSearch ==
    /\ InitSearch
    /\ [][NextSearch]_vars
    /\ WF_vars(SearchDiscover)
    /\ WF_vars(SearchRetry)
    /\ WF_vars(SearchRespond)

InitStore == ServerInit /\ ChunkIdle /\ CrawlIdle /\ ResolveIdle

NextStore ==
    \/ AddDocuments
    \/ MultiSearch
    \/ GetStats
    \/ SearchDocuments
    \/ DeleteDocuments
    \/ UpdateDocument

SpecStore == InitStore /\ [][NextStore]_vars

InitRace == RaceInit /\ ChunkIdle /\ CrawlIdle /\ ResolveIdle

NextRace == RaceStarts \/ RaceFetches \/ RaceLeaves \/ RaceSaves \/ RaceIndexes

SpecRace == InitRace /\ [][NextRace]_vars

(***************************************************************************)
(* Claims                                                                  *)
(***************************************************************************)
PageUrls == {pages_data[i].url : i \in 1..Len(pages_data)}

Pos(x, s) == CHOOSE i \in 1..Len(s) : s[i] = x

\* C2: a crawl never holds more than max_pages pages, the urls of its pages
\* are pairwise distinct, and _scrape_page is never invoked on a URL that is
\* in the visited set.
C2_CrawlBounded ==
    crawl_pc # "idle" =>
        /\ Len(pages_data) <= max_pages
        /\ \A i, j \in 1..Len(pages_data) :
              pages_data[i].url = pages_data[j].url => i = j
        /\ revisits = 0

\* C2 witness: a crawl that returned with max_pages pages although the
\* frontier still held URLs, after at least one failed extraction
C2_Witness ==
    /\ crawl_pc = "returned"
    /\ Len(pages_data) = max_pages
    /\ urls_to_visit # <<>>
    /\ \E u \in AllUrls : scrape_calls[u] > 0 /\ u \notin visited_urls

\* C3: within one crawl _scrape_page is invoked on every URL at most once.
C3_ScrapedAtMostOnce ==
    crawl_pc # "idle" => \A u \in AllUrls : scrape_calls[u] <= 1

\* C4: the pages of the returned bundle are in the order in which their
\* URLs were first discovered, the base URL first.
C4_PagesInDiscoveryOrder ==
    crawl_pc = "returned" =>
        /\ \A i \in 1..Len(pages_data) : InSeq(pages_data[i].url, first_seen)
        /\ \A i, j \in 1..Len(pages_data) :
              i < j => Pos(pages_data[i].url, first_seen)
                         < Pos(pages_data[j].url, first_seen)

\* C5: for every library name whose lower-cased form is a key of
\* known_docs, _discover_documentation_url returns exactly the registry URL
\* and issues no probe; "react" in any letter case yields
\* "https://react.dev/".
C5_RegistryNoProbe ==
    res_pc = "done" =>
        /\ Lower(res_name) \in DOMAIN known_docs =>
              /\ res_out.url = known_docs[Lower(res_name)]
              /\ res_out.probed = <<>>
        /\ Lower(res_name) = "react" => res_out.url = "https://react.dev/"

\* C5 witness: a mixed-case registry name resolved while a probe of one of
\* its pattern URLs would have answered 200
C5_Witness ==
    /\ res_pc = "done"
    /\ res_name = "React"
    /\ res_probe[1] = "200"
    /\ res_out.url = "https://react.dev/"

(***************************************************************************)
(* C9                                                                      *)
(***************************************************************************)
ChunkLenAt(i) == TextLen(chunks[i].content)

\* C9: every chunk but possibly the last is at most max_chunk_size
\* characters long, unless it consists of one single sentence that is itself
\* longer than max_chunk_size.
C9_ChunksWithinMax ==
    chunk_pc = "done" =>
        \A i \in 1..(Len(chunks) - 1) :
            \/ ChunkLenAt(i) <= max_chunk_size
            \/ chunk_parts[i] = 1

\* the cache file of the call the discovery handler made
CallPath == CachePaths[op.call.library_name]

\* the call crawled and saved: the cache file holds the bundle of this crawl
Resaved ==
    /\ CallPath \in DOMAIN cache
    /\ cache[CallPath].scraped_at = clock
    /\ cache[CallPath] # op.call.cached_before

\* the call left the cache file as it found it
EntryKept ==
    IF op.call.cached_before = None THEN CallPath \notin DOMAIN cache
    ELSE CallPath \in DOMAIN cache /\ cache[CallPath] = op.call.cached_before

\* a call that does not force and finds a cache file neither probes nor
\* fetches nor touches the file, and a file is replaced by a forced call only
NonForcedKeeps ==
    /\ (~op.call.force_reindex /\ op.call.cached_before # None)
         => /\ op.call.probed = <<>>
            /\ op.call.fetches = 0
            /\ cache[CallPath] = op.call.cached_before
    /\ (op.call.cached_before # None /\ cache[CallPath] # op.call.cached_before)
         => op.call.force_reindex

\* C1: a search request discovers if and only if its first search was
\* empty and a library was named; then it discovers once and searches once
\* more, so it makes at most two searches and at most one discovery; and
\* every request that started completes.
C1_Counts ==
    op.kind = "search" =>
        /\ op.searches <= 2
        /\ op.discoveries <= 1
        /\ op.discoveries = 1 => (op.first = {} /\ Truthy(op.library))
        /\ op.pc = "discovered" => (op.searches = 1 /\ op.discoveries = 1)
        /\ op.pc = "retried" => (op.searches = 2 /\ op.discoveries = 1)
        /\ op.pc = "done" =>
             /\ op.discoveries = 1 <=> (op.first = {} /\ Truthy(op.library))
             /\ op.searches = 1 + op.discoveries

C1_SearchFallback ==
    /\ []C1_Counts
    /\ (op.kind = "search" /\ op.pc # "done") ~> (op.kind = "search" /\ op.pc = "done")

C1_Witness ==
    /\ op.kind = "search" /\ op.pc = "done"
    /\ op.first = {} /\ op.discoveries = 1 /\ op.searches = 2
    /\ op.results # {}

C7_ResultCarriesCounts ==
    (op.kind = "discover" /\ op.call.result # None) =>
        /\ {"pages_count", "chunks_count", "last_updated"}
              \subseteq DOMAIN op.call.result
        /\ op.call.result.pages_count = PagesCount(op.call.indexed)
        /\ op.call.result.chunks_count = ChunksCount(op.call.indexed)
        /\ op.call.result.last_updated = op.call.indexed.scraped_at

\* the ids of the documents of a bundle that go to collection c
TargetIds(scraped_data, library_name, c) ==
    LET documents == BundleDocuments(scraped_data, library_name)
        type      == IF c = "docs" THEN "documentation"
                     ELSE IF c = "examples" THEN "code_example" ELSE "none"
    IN {d.id : d \in SeqRange(OfType(documents, type))}

\* a call that loaded the cache indexes a bundle for the second time: the
\* call that crawled it indexed it right after saving it, under the name
\* the bundle records as its library
Reindexed == op.kind = "discover" /\ op.call.hit /\ op.call.result # None

SameIds ==
    DocIds(op.call.indexed, op.call.library_name)
        = DocIds(op.call.indexed, op.call.indexed.library)

\* C8 (as stated): indexing a bundle again derives the same ids, and leaves
\* the document count of every collection as the first indexing left it,
\* also after a first indexing that failed in part.
C8_CountsUnchanged ==
    Reindexed =>
        /\ SameIds
        /\ \A c \in CollectionNames :
             Cardinality(Ids(collections[c])) = Cardinality(op.call.ids_before[c])

\* C8 (amended): indexing a bundle again under the library name of its
\* first indexing derives the same ids; indexing removes nothing and adds
\* only documents of the bundle that their collection did not hold; so when
\* every document of the bundle was in its collection, every collection
\* holds the same ids, and as many, as before.
C8_Idempotent ==
    Reindexed =>
        /\ op.call.library_name = op.call.indexed.library => SameIds
        /\ \A c \in CollectionNames :
             /\ op.call.ids_before[c] \subseteq Ids(collections[c])
             /\ Ids(collections[c]) \ op.call.ids_before[c]
                  \subseteq TargetIds(op.call.indexed, op.call.library_name, c)
        /\ (\A c \in CollectionNames :
               TargetIds(op.call.indexed, op.call.library_name, c)
                  \subseteq op.call.ids_before[c])
             => \A c \in CollectionNames :
                  Ids(collections[c]) = op.call.ids_before[c]

C8_Witness ==
    /\ Reindexed
    /\ op.call.library_name = op.call.indexed.library
    /\ op.call.ids_before["examples"] # {}
    /\ \A c \in CollectionNames :
         /\ TargetIds(op.call.indexed, op.call.library_name, c)
               \subseteq op.call.ids_before[c]
         /\ Ids(collections[c]) = op.call.ids_before[c]
    /\ \E id \in Ids(collections["docs"]) :
         id \notin TargetIds(op.call.indexed, op.call.library_name, "docs")

\* C10: search_multi_collection returns a map whose keys are exactly the
\* four collection names, also when searches of collections fail; a
\* collection without a match maps to an empty list.
C10_MultiSearchFourKeys ==
    op.kind = "multi" =>
        /\ DOMAIN op.results = {"docs", "api", "examples", "tutorials"}
        /\ \A c \in CollectionNames :
             (c \in op.failing \/ Ids(collections[c]) = {}) => op.results[c] = {}

C10_Witness ==
    /\ op.kind = "multi"
    /\ op.failing # {}
    /\ \E c \in CollectionNames : op.results[c] # {}
    /\ \E c \in CollectionNames \ op.failing :
         op.results[c] = {} /\ Ids(collections[c]) = {}
    /\ \E c \in op.failing : Ids(collections[c]) # {}

\* C11: get_collection_stats returns an entry for each of the four
\* collections: the current document count of a collection whose count
\* succeeds, an error entry for a collection whose count fails, whatever
\* the other counts do.
C11_StatsEveryCollection ==
    op.kind = "stats" =>
        /\ DOMAIN op.stats = {"docs", "api", "examples", "tutorials"}
        /\ \A c \in CollectionNames :
             IF c \in op.failing
             THEN DOMAIN op.stats[c] = {"error"}
             ELSE op.stats[c] = [document_count |-> Cardinality(Ids(collections[c])),
                                 collection_name |-> c]

C11_Witness ==
    /\ op.kind = "stats"
    /\ op.failing # {}
    /\ \E c \in CollectionNames \ op.failing :
         op.stats[c].document_count >= 1
    /\ \E c \in op.failing : Ids(collections[c]) # {}

\* C12: search_documents on a collection that holds no documents returns
\* the empty list, for every n_results and filter, also when the embedding
\* provider fails.
C12_EmptyCollectionEmptyList ==
    (/\ op.kind = "search"
     /\ op.collection_type \in CollectionNames
     /\ Ids(collections[op.collection_type]) = {}) => op.results = {}

C12_Witness ==
    /\ op.kind = "search"
    /\ op.collection_type \in CollectionNames
    /\ Ids(collections[op.collection_type]) = {}
    /\ op.works
    /\ op.n_results >= 1
    /\ op.filter_metadata # None
    /\ op.results = {}
    /\ \E c \in CollectionNames : Ids(collections[c]) # {}

\* C13: a failure of the embedding provider is told apart from success by
\* the caller: a failed add_documents does not return True, and what a
\* failed search_documents returns is nothing the same search could have
\* returned had the provider worked.
C13_EmbeddingFailureDistinct ==
    /\ (op.kind = "add" /\ ~op.works) => op.result = FALSE
    /\ (op.kind = "search" /\ ~op.works /\ op.collection_type \in CollectionNames) =>
          op.results \notin search_documents(collections, op.collection_type,
                                             op.n_results, op.filter_metadata, TRUE)

\* the document the collection of the last add_documents holds under id
Stored(id) == collections[op.collection_type][id]

AsStored(d) == [content |-> d.content, metadata |-> d.metadata]

\* C17 as stated: add_documents on one of the four collections returns
\* True and stores every document of the batch under its id, and an
\* unfiltered search of a collection that documents were added to, with
\* n_results >= 1, returns a non-empty list of entries with content,
\* metadata, similarity and id.
C17_AddStoresAll ==
    /\ (op.kind = "add" /\ op.collection_type \in CollectionNames) =>
          /\ op.result = TRUE
          /\ \A d \in SeqRange(op.documents) :
                /\ d.id \in Ids(collections[op.collection_type])
                /\ Stored(d.id) = AsStored(d)
    /\ (/\ op.kind = "search"
        /\ op.collection_type \in CollectionNames
        /\ Ids(collections[op.collection_type]) # {}
        /\ op.filter_metadata = None
        /\ op.n_results >= 1) =>
          /\ op.results # {}
          /\ \A e \in op.results :
                DOMAIN e = {"content", "metadata", "similarity", "id"}

\* C17, amended: when the embedding provider works and no id occurs twice
\* in the batch, add_documents on one of the four collections returns True
\* and the collection holds every id of the batch, with the document of the
\* batch unless the collection held the id before; a failed add_documents
\* returns False and stores nothing; an unfiltered search with a working
\* provider and n_results >= 1 of a collection that holds documents returns
\* a non-empty list of entries with content, metadata, similarity and id,
\* each the stored document of its id.
C17_AddThenSearch ==
    /\ (op.kind = "add" /\ op.collection_type \in CollectionNames) =>
          IF op.works /\ ~HasRepeatedId(op.documents)
          THEN /\ op.result = TRUE
               /\ \A d \in SeqRange(op.documents) :
                     /\ d.id \in Ids(collections[op.collection_type])
                     /\ d.id \notin op.held_before => Stored(d.id) = AsStored(d)
          ELSE /\ op.result = FALSE
               /\ Ids(collections[op.collection_type]) = op.held_before
    /\ (/\ op.kind = "search"
        /\ op.collection_type \in CollectionNames
        /\ Ids(collections[op.collection_type]) # {}
        /\ op.filter_metadata = None
        /\ op.works
        /\ op.n_results >= 1) =>
          /\ op.results # {}
          /\ \A e \in op.results :
                /\ DOMAIN e = {"content", "metadata", "similarity", "id"}
                /\ e.id \in Ids(collections[op.collection_type])
                /\ e.content = Stored(e.id).content
                /\ e.metadata = Stored(e.id).metadata

C17_Witness ==
    /\ op.kind = "search"
    /\ op.collection_type = "docs"
    /\ op.filter_metadata = None
    /\ op.works
    /\ op.n_results = 1
    /\ Ids(collections["docs"]) = {"doc1", "doc2"}
    /\ Cardinality(op.results) = 1

IsPrefix(s, t) == Len(s) <= Len(t) /\ SubSeq(t, 1, Len(s)) = s

\* a step of the loop whose _scrape_page returned None
FailedScrapeStep ==
    /\ crawl_pc = "loop"
    /\ crawl_pc' = "loop"
    /\ crawl_last'.invoked
    /\ ~crawl_last'.ok

\* what C16 asks of every step of a crawl
FailureSkipsPage ==
    /\ FailedScrapeStep =>
          /\ pages_data' = pages_data
          /\ visited_urls' = visited_urls
          /\ crawl_last'.url = Head(urls_to_visit)
          /\ urls_to_visit' = Tail(urls_to_visit)
    /\ IsPrefix(pages_data, pages_data')
    /\ (crawl_pc = "loop" /\ crawl_pc' = "returned") =>
          ~CrawlContinues(CrawlState)

\* C16: an iteration whose page cannot be extracted leaves pages_data and
\* visited_urls as they were, only pops the failing URL, and leaves the
\* crawl in its loop; no step of the crawl drops a collected page, so the
\* returned bundle holds the pages collected before and after the failure.
C16_FailureSkipsPage == [][FailureSkipsPage]_vars

\* C16 witness: a returned bundle with a page collected before and a page
\* collected after a failed extraction
C16_Witness ==
    /\ crawl_pc = "returned"
    /\ Len(pages_data) >= 2
    /\ crawl_last.ok
    /\ \E u \in AllUrls : scrape_calls[u] > 0 /\ u \notin visited_urls

\* C20: every crawl returns, whatever pages fail and whatever links the
\* pages carry, and when it has returned the frontier is empty or
\* pages_data holds max_pages pages.
C20_CrawlTerminates ==
    /\ <>(crawl_pc = "returned")
    /\ [](crawl_pc = "returned" =>
            (urls_to_visit = <<>> \/ Len(pages_data) = max_pages))

\* C20 witness: a crawl that returned on an empty frontier after a URL
\* failed, was linked again and failed again
C20_Witness ==
    /\ crawl_pc = "returned"
    /\ urls_to_visit = <<>>
    /\ Len(pages_data) < max_pages
    /\ \E u \in AllUrls : scrape_calls[u] >= 2 /\ u \notin visited_urls

\* the probe of candidate k found the URL: the HEAD request was answered,
\* and with status 200
ProbeFound(k) == res_session # "closed" /\ res_probe[k] = "200"

\* C19: for a name without a registry entry the candidates are probed in
\* order, the doc_patterns in list order and then the GitHub patterns; the
\* result is the first candidate whose probe is answered with 200 and no
\* candidate after it is probed; a probe that raises or is answered
\* otherwise only moves on to the next candidate; the result is None
\* exactly when no probe finds its URL.
C19_FirstProbeWins ==
    (res_pc = "done" /\ Lower(res_name) \notin DOMAIN known_docs) =>
        LET cands == Candidates(res_name)
            found == {k \in 1..Len(cands) : ProbeFound(k)}
        IN /\ Len(cands) = 10
           /\ res_name = "my_lib" =>
                 cands = << "https://my_lib.readthedocs.io/",
                            "https://docs.my_lib.com/",
                            "https://my_lib.org/docs/",
                            "https://my_lib.org/documentation/",
                            "https://github.com/my_lib/wiki",
                            "https://my_lib.dev/",
                            "https://my_lib.js.org/",
                            "https://github.com/my_lib/my_lib",
                            "https://github.com/my_lib",
                            "https://my_lib.github.io/" >>
           /\ (res_out.url = NoneStr) <=> (found = {})
           /\ found = {} => res_out.probed = cands
           /\ \A k \in found :
                 (\A h \in found : k <= h) =>
                     /\ res_out.url = cands[k]
                     /\ res_out.probed = SubSeq(cands, 1, k)

\* C19 witness: the probes of two doc_patterns raise, the others are
\* answered 404, and the first GitHub pattern is answered 200, as a later
\* one would be
C19_Witness ==
    /\ res_pc = "done"
    /\ res_name = "my lib"
    /\ res_probe[1] = "error" /\ res_probe[3] = "error"
    /\ res_probe[8] = "200" /\ res_probe[9] = "200"
    /\ res_out.url = "https://github.com/my lib/my lib"
    /\ Len(res_out.probed) = 8

\* the call opened the cache file, to load it or to write it, and the
\* access raised
CacheAccessFailed ==
    /\ op.call.io = "fails"
    /\ \/ ~op.call.force_reindex /\ op.call.cached_before # None
       \/ op.call.url # NoneStr

\* C14: a scrape_library call whose cache file cannot be read or written
\* hands no bundle to its caller, and the caller is told of a failure that
\* is not the answer to a library whose documentation URL was not found.
C14_CacheFailurePropagates ==
    (op.kind = "discover" /\ CacheAccessFailed) =>
        /\ op.call.result = None \/ "pages" \notin DOMAIN op.call.result
        /\ op.response # Response(Untouched.result)

\* the collections hold the ids they held before the call
IdsKept ==
    \A c \in CollectionNames : Ids(collections[c]) = op.call.ids_before[c]

\* C15: a scrape_library call without a URL for which the resolver finds
\* none returns None, the handler answers with a failure, no page is
\* fetched, the cache holds what it held and so do the collections; the
\* handler is ready for the next request.
C15_NotFoundRecoverable ==
    (op.kind = "discover" /\ NoUrlFound(op.call)) =>
        /\ op.call.result = None
        /\ op.response = [success |-> FALSE]
        /\ op.call.fetches = 0
        /\ op.call.indexed = None
        /\ EntryKept
        /\ IdsKept
        /\ Idle

\* C15 witness: a request for a library whose URL is not found, every
\* candidate probed, after which a request with a URL crawls and indexes
C15_Witness ==
    /\ op.kind = "discover"
    /\ op.after_not_found
    /\ op.call.result # None
    /\ op.call.fetches >= 1
    /\ \E c \in CollectionNames : Ids(collections[c]) # {}

RacePath(t) == CachePaths[op.tasks[t].library]

AllIds(cols) == UNION {Ids(cols[c]) : c \in DOMAIN cols}

\* what a step of task t does to the cache file and the index, whatever
\* the other task is doing
RaceStepOf(t) ==
    LET task == op.tasks[t]
        next == op'.tasks[t]
    IN /\ (task.pc = "start" /\ next.pc # "start") =>
             /\ next.missed <=> RacePath(t) \notin DOMAIN cache
             /\ next.missed => next.pc = "crawl"
       /\ (task.pc = "save" /\ next.pc = "index") =>
             /\ RacePath(t) \in DOMAIN cache'
             /\ cache'[RacePath(t)] = task.bundle
       /\ (task.pc = "index" /\ next.pc = "done") =>
             /\ DocIds(task.bundle, task.library) \subseteq AllIds(collections')
             /\ next.result # None

\* C18: nothing serialises two scrape_library calls for one library: a
\* call that finds no cache file starts its crawl also while the other
\* call is crawling, and every call that crawled writes its bundle over
\* the cache file and hands its documents to the index.
C18_NoSingleFlight == [][\A t \in Tasks : RaceStepOf(t)]_vars

\* C18 witness: both calls found no cache file, both crawled pages, both
\* wrote the cache file, which holds the bundle written last, and the
\* documents of both bundles were handed to the index
C18_Witness ==
    /\ op.kind = "race"
    /\ \A t \in Tasks :
         /\ op.tasks[t].library = RaceLib
         /\ op.tasks[t].pc = "done"
         /\ op.tasks[t].missed
         /\ op.tasks[t].fetches >= 1
         /\ Len(op.tasks[t].bundle.pages) >= 1
         /\ op.tasks[t].result # None
         /\ DocIds(op.tasks[t].bundle, RaceLib) \subseteq AllIds(collections)
    /\ op.tasks[1].bundle # op.tasks[2].bundle
    /\ cache[RacePath(1)] \in {op.tasks[t].bundle : t \in Tasks}

\* urlparse(url).path: what follows the netloc, up to "?" or "#"
UrlPath(url) ==
    SubSeq(url, Len(Origin(url)) + 1,
           FindFrom(url, {"?", "#"}, Len(Origin(url)) + 1) - 1)

PathLooksLikeDocs(url) ==
    \E indicator \in doc_indicators : Contains(Lower(UrlPath(url)), indicator)

\* C21: every URL of the frontier other than base_url has the netloc of
\* base_url and a path that contains one of the doc_indicators.
C21_EnqueuedPathsLookLikeDocs ==
    crawl_pc # "idle" =>
        \A i \in 1..Len(urls_to_visit) :
            urls_to_visit[i] # base_url =>
                /\ Netloc(urls_to_visit[i]) = Netloc(base_url)
                /\ PathLooksLikeDocs(urls_to_visit[i])

\* the frontier holds no URL twice and no visited URL
FrontierClean ==
    /\ \A i, j \in 1..Len(urls_to_visit) :
          urls_to_visit[i] = urls_to_visit[j] => i = j
    /\ \A i \in 1..Len(urls_to_visit) : urls_to_visit[i] \notin visited_urls

\* what an iteration enqueues: at most max_related links, behind the rest of
\* the frontier, each neither visited nor in the frontier before
EnqueuesNew ==
    (crawl_pc = "loop" /\ crawl_pc' = "loop") =>
        LET rest == Tail(urls_to_visit)
            n    == Len(urls_to_visit') - Len(rest)
        IN /\ 0 <= n /\ n <= max_related
           /\ SubSeq(urls_to_visit', 1, Len(rest)) = rest
           /\ \A i \in (Len(rest) + 1)..Len(urls_to_visit') :
                 /\ urls_to_visit'[i] \notin visited_urls'
                 /\ ~InSeq(urls_to_visit'[i], rest)
           /\ n > 0 => crawl_last'.ok

\* C22: an iteration enqueues at most max_related links (10 in the
\* source), only behind a page that was extracted and only links that are
\* neither visited nor in the frontier; so the frontier never holds a URL
\* twice or a visited URL, and the URL popped is never a visited one.
C22_FrontierClean ==
    /\ [](crawl_pc = "loop" => FrontierClean)
    /\ [](crawl_pc = "loop" /\ CrawlContinues(CrawlState) => ~SkipsVisited(CrawlState))
    /\ [][EnqueuesNew]_vars

\* C22 witness: the second page offered two links and at least one of them
\* was not enqueued, being visited or in the frontier already
C22_Witness ==
    /\ crawl_pc = "loop"
    /\ Len(pages_data) = 2
    /\ crawl_last.ok
    /\ crawl_last.offered = 2
    /\ Len(urls_to_visit) = 1

RECURSIVE CodeBlocksFrom(_, _)
CodeBlocksFrom(pages, i) ==
    IF i > Len(pages) THEN 0
    ELSE Len(pages[i].code_blocks) + CodeBlocksFrom(pages, i + 1)

\* the ids the call added to collection c
AddedIds(c) == Ids(collections[c]) \ op.call.ids_before[c]

IdsOfType(scraped_data, library_name, type) ==
    {d.id : d \in SeqRange(OfType(BundleDocuments(scraped_data, library_name), type))}

\* C23: the documents derived from a bundle are one of type documentation
\* per chunk and one of type code_example per code block; an indexing adds
\* documents of type documentation to "docs" only and documents of type
\* code_example to "examples" only, and leaves "api" and "tutorials" as
\* they were.
C23_Routing ==
    (op.kind = "discover" /\ op.call.indexed # None) =>
        LET documents == BundleDocuments(op.call.indexed, op.call.library_name)
        IN /\ Len(OfType(documents, "documentation")) = ChunksCount(op.call.indexed)
           /\ Len(OfType(documents, "code_example"))
                = CodeBlocksFrom(op.call.indexed.pages, 1)
           /\ Len(documents) = ChunksCount(op.call.indexed)
                                 + CodeBlocksFrom(op.call.indexed.pages, 1)
           /\ AddedIds("docs") \subseteq
                 IdsOfType(op.call.indexed, op.call.library_name, "documentation")
           /\ AddedIds("examples") \subseteq
                 IdsOfType(op.call.indexed, op.call.library_name, "code_example")
           /\ \A id \in Ids(collections["docs"]) :
                 collections["docs"][id].metadata.type = "documentation"
           /\ \A id \in Ids(collections["examples"]) :
                 collections["examples"][id].metadata.type = "code_example"
           /\ collections["api"] = <<>>
           /\ collections["tutorials"] = <<>>

\* C23 witness: an indexing that added chunks to "docs" and code blocks to
\* "examples"
C23_Witness ==
    /\ op.kind = "discover"
    /\ op.call.indexed # None
    /\ AddedIds("docs") # {}
    /\ AddedIds("examples") # {}
    /\ CodeBlocksFrom(op.call.indexed.pages, 1) >= 1
    /\ ChunksCount(op.call.indexed) >= 2

\* the chunk ids of a page are library_0, library_1, ... in order
OrdinalsFromZero(page) ==
    \A k \in 1..Len(page.chunks) :
        page.chunks[k].chunk_id = page.library \o "_" \o ToString(k - 1)

\* C24: the chunk ids of every page of a bundle are library_0, library_1,
\* ...; the documents derived from the bundle that go to one collection
\* (that have one type) have pairwise distinct ids, although chunks of
\* different pages share their chunk id: the id of a chunk's document is
\* made of library, url and chunk id, that of a code block's document of
\* library, url and index.
C24_DocIdsDistinct ==
    (op.kind = "discover" /\ op.call.indexed # None) =>
        LET pages     == op.call.indexed.pages
            lib       == op.call.library_name
            documents == BundleDocuments(op.call.indexed, lib)
        IN /\ \A p \in 1..Len(pages) : OrdinalsFromZero(pages[p])
           /\ \A i, j \in 1..Len(documents) :
                 (/\ documents[i].id = documents[j].id
                  /\ documents[i].metadata.type = documents[j].metadata.type)
                     => i = j
           /\ \A p \in 1..Len(pages) :
                 /\ \A k \in 1..Len(pages[p].chunks) :
                       ChunkDocId(lib, pages[p].chunks[k])
                         = Md5(lib \o "_" \o pages[p].url \o "_" \o lib
                                 \o "_" \o ToString(k - 1))
                 /\ \A k \in 1..Len(pages[p].code_blocks) :
                       CodeDocId(lib, pages[p], k - 1)
                         = Md5(lib \o "_code_" \o pages[p].url \o "_"
                                 \o ToString(k - 1))

\* C24 witness: a bundle of two pages whose first chunks share the chunk
\* id, indexed under two ids
C24_Witness ==
    /\ op.kind = "discover"
    /\ op.call.indexed # None
    /\ Len(op.call.indexed.pages) >= 2
    /\ LET p == op.call.indexed.pages[1]
           q == op.call.indexed.pages[2]
       IN /\ p.chunks[1].chunk_id = q.chunks[1].chunk_id
          /\ ChunkDocId(op.call.library_name, p.chunks[1]) \in Ids(collections["docs"])
          /\ ChunkDocId(op.call.library_name, q.chunks[1]) \in Ids(collections["docs"])
          /\ ChunkDocId(op.call.library_name, p.chunks[1])
               # ChunkDocId(op.call.library_name, q.chunks[1])

\* C25: when update_document returns True, the collection holds the id
\* with the new content and metadata, and every other entry of it and every
\* other collection is as before the call.
C25_UpdateReplaces ==
    (op.kind = "update" /\ op.result = TRUE) =>
        LET col == collections[op.collection_type]
            old == op.before[op.collection_type]
        IN /\ op.doc_id \in Ids(col)
           /\ col[op.doc_id] = [content |-> op.content, metadata |-> op.metadata]
           /\ Ids(col) \ {op.doc_id} = Ids(old) \ {op.doc_id}
           /\ \A id \in Ids(col) \ {op.doc_id} : col[id] = old[id]
           /\ \A c \in CollectionNames \ {op.collection_type} :
                 collections[c] = op.before[c]

\* C26: the probes of a call are issued on an open session, so the URL the
\* call resolves is the one the registry and the answers of the probed
\* sites give, whatever calls ran before.
C26_ProbesOnOpenSession ==
    (op.kind = "discover" /\ op.call.probed # <<>>) =>
        /\ SessionForProbe(op.call.session_before) = "open"
        /\ op.call.url
             = discover_documentation_url(op.call.library_name, op.call.probe,
                                          "open").url

\* the pages of the crawl of library_name's site by a call running alone
PagesAlone(library_name) ==
    CrawlRuns[SuppliedUrl][library_name]["nothing"].st.pages_data

\* C27: of two scrape_library calls for different libraries, neither
\* closes the session the other is still fetching with, and the bundle of
\* each holds the pages its crawl collects when it runs alone on the same
\* site.
C27_CrawlsDoNotInterfere ==
    (op.kind = "race" /\ op.tasks[1].library # op.tasks[2].library) =>
        \A t \in Tasks :
            /\ (op.tasks[t].pc = "crawl" /\ CrawlContinues(op.tasks[t].st))
                  => session = "open"
            /\ (op.tasks[t].bundle # None /\ ~op.tasks[t].refused)
                  => op.tasks[t].bundle.pages = PagesAlone(op.tasks[t].library)

\* C28: when scrape_library returns a result, every document derived from
\* the bundle it indexed is in its collection: the chunks in "docs", the
\* code blocks in "examples".
C28_SuccessMeansIndexed ==
    (op.kind = "discover" /\ op.call.result # None) =>
        /\ op.call.indexed # None
        /\ IdsOfType(op.call.indexed, op.call.library_name, "documentation")
             \subseteq Ids(collections["docs"])
        /\ IdsOfType(op.call.indexed, op.call.library_name, "code_example")
             \subseteq Ids(collections["examples"])

\* C29: a crawl that extracted no page is reported as a failure and is not
\* cached: no cache file holds a bundle without pages, and a call that
\* crawled returns a result only for a bundle with pages.
C29_EmptyBundleNotCached ==
    /\ \A path \in DOMAIN cache : Len(cache[path].pages) >= 1
    /\ (op.kind = "discover" /\ ~op.call.hit /\ op.call.result # None) =>
          op.call.result.pages_count >= 1

\* a step removes no document and changes none
DocumentsKept ==
    \A c \in CollectionNames :
        \A id \in Ids(collections[c]) :
            id \in Ids(collections'[c]) /\ collections'[c][id] = collections[c][id]

\* C30: no discovery request removes a document from a collection or
\* changes one: the ids of every collection only grow, so the documents of
\* a bundle that a forced re-index replaced are still indexed.
C30_DocumentsOnlyGrow == [][DocumentsKept]_vars

\* C30 witness: a forced call replaced the cached bundle by one that lacks
\* documents of the old one, and those are still in the collections
C30_Witness ==
    /\ op.kind = "discover"
    /\ op.call.force_reindex
    /\ op.call.cached_before # None
    /\ Resaved
    /\ DocIds(op.call.cached_before, op.call.library_name) # {}
    /\ DocIds(op.call.cached_before, op.call.library_name)
         \cap DocIds(cache[CallPath], op.call.library_name) = {}
    /\ DocIds(op.call.cached_before, op.call.library_name)
         \subseteq AllIds(collections)

====
